---------------------------- MODULE Spec2Model ----------------------------
(***************************************************************************)
(* AutoScan IA: the damage interpreter and aggregator of                   *)
(* backend/damage_analyzer.py and the /api/analyze boundary of app.py.     *)
(*                                                                         *)
(* Numbers.  The classifier's probabilities are fixed-point integers with  *)
(* Scale units to 1.0; percentages are fixed-point integers with Milli     *)
(* units to one percent, so that round(x, 2) really drops a digit.  The    *)
(* arithmetic is exact: the rounding error of float32 products and of      *)
(* float64 sums is not modelled.  Text built by += is a sequence of its    *)
(* parts.                                                                  *)
(***************************************************************************)
EXTENDS Integers, Sequences, FiniteSets, TLC

VARIABLES
    prediction_array,   \* interpreter: predictions[0] of the image under analysis
    model_loaded,       \* interpreter: DamageAnalyzer.model_loaded of that analyzer
    image_ok,           \* interpreter: whether preprocess_image can decode the image
    single,             \* interpreter: outcome of analyze_single_image, or Pending
    images,             \* vehicle: angle -> the model's output for that angle's image
    v_loaded,           \* vehicle: DamageAnalyzer.model_loaded
    outcome,            \* vehicle: outcome of analyze_vehicle, or Pending
    clients,            \* service: the requests that are sent in this run
    model_store,        \* service: which model files exist on disk, and whether they load
    serving,            \* service: app.py has been imported and the routes are up
    analyzer,           \* service: the module-level analyzer (None or a DamageAnalyzer)
    load_calls,         \* service: calls of DamageAnalyzer._load_model so far
    core_calls,         \* service: calls of analyzer.analyze_vehicle so far
    health,             \* service: the last /api/health response, or NoResponse
    now,                \* service: datetime.now(), the stamp of new filenames
    files,              \* service: the files of UPLOAD_FOLDER
    pc,                 \* service: request -> where its handler stands
    request_files,      \* service: request -> request.files as read by validation
    image_files,        \* service: request -> the validated uploads (angle -> data)
    saved_paths,        \* service: request -> the paths saved so far, in angle order
    pos,                \* service: request -> how many paths a removal loop has passed
    analysis,           \* service: request -> what analyze_vehicle returned, or Pending
    caught,             \* service: request -> the exception caught at line 162, or ""
    response,           \* service: request -> the response returned, or NoResponse
    users,              \* accounts: the rows of table users, in id order
    user_sessions,      \* accounts: the rows of table user_sessions
    auth_now,           \* accounts: CURRENT_TIMESTAMP, in hours
    auth_ticks,         \* accounts: how often the clock has advanced
    issued,             \* accounts: session id -> how login last issued it, and
                        \*           whether logout has been given it since
    reply               \* accounts: the last auth call and its response

interpVars == <<prediction_array, model_loaded, image_ok, single>>
vehicleVars == <<images, v_loaded, outcome>>
serverVars == <<clients, model_store, serving, analyzer, load_calls, core_calls, health, now, files>>
requestVars == <<pc, request_files, image_files, saved_paths, pos, analysis, caught, response>>
serviceVars == <<serverVars, requestVars>>
authVars == <<users, user_sessions, auth_now, auth_ticks, issued, reply>>
vars == <<interpVars, vehicleVars, serviceVars, authVars>>

-----------------------------------------------------------------------------
(* Units *)
Scale == 10^5           \* probability 1.0
Milli == 10^3           \* one percent
Centi == Milli \div 100 \* 0.01 percent, the digit round(x, 2) keeps

(* How far on each side of a tier threshold the model outputs are enumerated *)
Jitter == 2

(* How many times the clock advances while a request is served *)
MaxClock == 1

-----------------------------------------------------------------------------
(* DamageAnalyzer.__init__ tables *)
ClassIdx == 0..3

CLASS_NAMES ==
    [i \in ClassIdx |->
        CASE i = 0 -> "01-minor"
          [] i = 1 -> "02-moderate"
          [] i = 2 -> "03-severe"
          [] i = 3 -> "04-no-damage"]

CLASS_LABELS ==
    [n \in {"01-minor", "02-moderate", "03-severe", "04-no-damage"} |->
        CASE n = "01-minor"     -> "Daño Leve"
          [] n = "02-moderate"  -> "Daño Moderado"
          [] n = "03-severe"    -> "Daño Severo"
          [] n = "04-no-damage" -> "Sin Daño"]

CLASS_DESCRIPTIONS ==
    [n \in {"01-minor", "02-moderate", "03-severe", "04-no-damage"} |->
        CASE n = "01-minor"     -> "Rayones pequeños, abolladuras leves"
          [] n = "02-moderate"  -> "Abolladuras medias, roturas parciales"
          [] n = "03-severe"    -> "Estructura comprometida, grandes abolladuras"
          [] n = "04-no-damage" -> "Vehículo en buen estado sin daños visibles"]

(* main_class.replace("01-", "")...replace("04-", "") *)
StripPrefix(n) ==
    CASE n = "01-minor"     -> "minor"
      [] n = "02-moderate"  -> "moderate"
      [] n = "03-severe"    -> "severe"
      [] n = "04-no-damage" -> "no-damage"

-----------------------------------------------------------------------------
(* np.argmax: scan left to right, keep the first index holding the maximum *)
RECURSIVE ArgmaxFrom(_, _, _)
ArgmaxFrom(arr, i, best) ==
    IF i > 3 THEN best
    ELSE ArgmaxFrom(arr, i + 1, IF arr[i] > arr[best] THEN i ELSE best)

(* Variant: the last index holding the maximum *)
ArgmaxLast(arr) ==
    CHOOSE i \in ClassIdx :
        /\ \A j \in ClassIdx : arr[j] <= arr[i]
        /\ \A j \in ClassIdx : j > i => arr[j] < arr[i]

argmax(arr) == ArgmaxFrom(arr, 1, 0)

(* prob * 100, as a percentage in Milli units *)
Pct(prob) == (prob * 100) \div (Scale \div Milli)

(* Variant: digits past the second decimal cut off *)
Round2Floor(x) == (x \div Centi) * Centi

(* round(x, 2): to the nearest 0.01, ties to the even digit; result in Milli units *)

RoundHalfEven(x, step) ==
    LET q == x \div step
        r == x % step
    IN  IF 2 * r > step \/ (2 * r = step /\ q % 2 = 1)
        THEN (q + 1) * step
        ELSE q * step

round2(x) == RoundHalfEven(x, Centi)

(* Variant: thresholds with >= *)
ConfidenceLevelInclusive(confidence) ==
    IF confidence >= 80 * Milli THEN "alta"
    ELSE IF confidence >= 60 * Milli THEN "media"
    ELSE "baja"

(* "Nivel de confianza", lines 105-111 *)
ConfidenceLevel(confidence) ==
    IF confidence > 80 * Milli THEN "alta"
    ELSE IF confidence > 60 * Milli THEN "media"
    ELSE "baja"

(* _generate_details: the per-class text, then the qualifier appended by += *)
details_map(class_name) ==
    CASE class_name = "01-minor"     -> "Rayones superficiales o abolladuras menores"
      [] class_name = "02-moderate"  -> "Abolladuras medias que podrían requerir reparación"
      [] class_name = "03-severe"    -> "Daños estructurales que afectan integridad"
      [] class_name = "04-no-damage" -> "Vehículo en excelente estado sin daños visibles"
      [] OTHER                       -> "Daño no especificado"

QualLow  == " (Baja confianza - verificación manual recomendada)"
QualMed  == " (Confianza media)"
QualHigh == " (Alta confianza)"

_generate_details(class_name, confidence) ==
    LET detail == <<details_map(class_name)>>
    IN  IF confidence < 60 * Milli THEN Append(detail, QualLow)
        ELSE IF confidence < 80 * Milli THEN Append(detail, QualMed)
        ELSE Append(detail, QualHigh)

(* Variant: the breakdown cut to two decimals *)
AllPredictionsRounded(arr) ==
    [n \in {CLASS_NAMES[i] : i \in ClassIdx} |->
        LET i == CHOOSE k \in ClassIdx : CLASS_NAMES[k] = n IN Round2Floor(Pct(arr[i]))]

(* all_predictions: every class's prob * 100, unrounded *)
AllPredictions(arr) ==
    [n \in {CLASS_NAMES[i] : i \in ClassIdx} |->
        LET i == CHOOSE k \in ClassIdx : CLASS_NAMES[k] = n IN Pct(arr[i])]

(* The result dict of analyze_single_image, lines 95-121 *)
InterpretResult(arr) ==
    LET main_class_idx == argmax(arr)
        main_class     == CLASS_NAMES[main_class_idx]
        confidence     == Pct(arr[main_class_idx])
    IN  [ damage           |-> StripPrefix(main_class),
          damage_label     |-> CLASS_LABELS[main_class],
          confidence       |-> round2(confidence),
          confidence_level |-> ConfidenceLevel(confidence),
          description      |-> CLASS_DESCRIPTIONS[main_class],
          all_predictions  |-> AllPredictions(arr),
          details          |-> _generate_details(main_class, confidence) ]

Raised(msg)   == [status |-> "raised", error |-> msg]
Returned(val) == [status |-> "returned", value |-> val]
Pending       == [status |-> "pending"]

(* analyze_single_image as a whole: the guard, preprocessing, the result *)
analyze_single_image(loaded, decodable, arr) ==
    IF ~loaded THEN Raised("Modelo no cargado")
    ELSE IF ~decodable THEN Raised("PreprocessingError")
    ELSE Returned(InterpretResult(arr))

-----------------------------------------------------------------------------
(* _generate_general_conclusion *)
Labels == {"Sin Daño", "Daño Leve", "Daño Moderado", "Daño Severo"}

(* Variant: the count set, not incremented *)
CountOnce(acc, result) ==
    [ damage_counts    |-> [acc.damage_counts EXCEPT ![result.damage_label] = 1],
      total_confidence |-> acc.total_confidence + result.confidence,
      angle_count      |-> acc.angle_count + 1 ]

(* The loop body, lines 186-190: one angle's result added to the tallies *)
Count(acc, result) ==
    [ damage_counts    |-> [acc.damage_counts EXCEPT ![result.damage_label] = @ + 1],
      total_confidence |-> acc.total_confidence + result.confidence,
      angle_count      |-> acc.angle_count + 1 ]

RECURSIVE Tally(_, _, _)
Tally(results, keys, acc) ==
    IF keys = {} THEN acc
    ELSE LET angle == CHOOSE k \in keys : TRUE
         IN  Tally(results, keys \ {angle},
                   IF angle # "conclusion" THEN Count(acc, results[angle]) ELSE acc)

(* total_confidence / angle_count, in tenths of a Milli unit: exact for the *)
(* four angles, whose confidences are whole hundredths of a percent         *)
Average(total_confidence, angle_count) ==
    IF angle_count > 0 THEN (total_confidence * 10) \div angle_count ELSE 0

(* Variant: a single Moderate already gives acceptable *)
VerdictAnyModerate(damage_counts) ==
    IF damage_counts["Daño Severo"] > 0 THEN
        [ overall |-> "poor",
          text |-> "El vehículo presenta daños severos que requieren atención inmediata.",
          recommendation |-> "No recomendado para compra sin evaluación profesional exhaustiva." ]
    ELSE IF damage_counts["Daño Moderado"] > 0 THEN
        [ overall |-> "acceptable",
          text |-> "El vehículo tiene múltiples daños moderados que necesitan reparación.",
          recommendation |-> "Evaluar costos de reparación antes de proceder." ]
    ELSE IF damage_counts["Daño Leve"] > 0 THEN
        [ overall |-> "good",
          text |-> "El vehículo se encuentra en buen estado con daños menores cosméticos.",
          recommendation |-> "Adecuado para compra, considerar reparaciones estéticas." ]
    ELSE
        [ overall |-> "excellent",
          text |-> "El vehículo está en excelente estado sin daños detectados.",
          recommendation |-> "Recomendado para compra, verificar mantenimiento interno." ]

VerdictMinorFirst(damage_counts) ==
    IF damage_counts["Daño Severo"] > 0 THEN
        [ overall |-> "poor",
          text |-> "El vehículo presenta daños severos que requieren atención inmediata.",
          recommendation |-> "No recomendado para compra sin evaluación profesional exhaustiva." ]
    ELSE IF damage_counts["Daño Leve"] > 0 THEN
        [ overall |-> "good",
          text |-> "El vehículo se encuentra en buen estado con daños menores cosméticos.",
          recommendation |-> "Adecuado para compra, considerar reparaciones estéticas." ]
    ELSE IF damage_counts["Daño Moderado"] > 1 THEN
        [ overall |-> "acceptable",
          text |-> "El vehículo tiene múltiples daños moderados que necesitan reparación.",
          recommendation |-> "Evaluar costos de reparación antes de proceder." ]
    ELSE
        [ overall |-> "excellent",
          text |-> "El vehículo está en excelente estado sin daños detectados.",
          recommendation |-> "Recomendado para compra, verificar mantenimiento interno." ]

(* "Determinar estado general", lines 194-210 *)
Verdict(damage_counts) ==
    IF damage_counts["Daño Severo"] > 0 THEN
        [ overall |-> "poor",
          text |-> "El vehículo presenta daños severos que requieren atención inmediata.",
          recommendation |-> "No recomendado para compra sin evaluación profesional exhaustiva." ]
    ELSE IF damage_counts["Daño Moderado"] > 1 THEN
        [ overall |-> "acceptable",
          text |-> "El vehículo tiene múltiples daños moderados que necesitan reparación.",
          recommendation |-> "Evaluar costos de reparación antes de proceder." ]
    ELSE IF damage_counts["Daño Leve"] > 0 THEN
        [ overall |-> "good",
          text |-> "El vehículo se encuentra en buen estado con daños menores cosméticos.",
          recommendation |-> "Adecuado para compra, considerar reparaciones estéticas." ]
    ELSE
        [ overall |-> "excellent",
          text |-> "El vehículo está en excelente estado sin daños detectados.",
          recommendation |-> "Recomendado para compra, verificar mantenimiento interno." ]

Caveat == " Nota: La confianza del análisis es baja, se recomienda verificación manual."

(* Variant: <= 70 *)
LowAverageInclusive(avg_confidence) == avg_confidence <= 70 * Milli * 10

(* line 212: avg_confidence < 70, avg_confidence in tenths of a Milli unit *)
LowAverage(avg_confidence) == avg_confidence < 70 * Milli * 10

_generate_general_conclusion(results) ==
    LET zero == [ damage_counts    |-> [l \in Labels |-> 0],
                  total_confidence |-> 0,
                  angle_count      |-> 0 ]
        t    == Tally(results, DOMAIN results, zero)
        avg_confidence  == Average(t.total_confidence, t.angle_count)
        v               == Verdict(t.damage_counts)
        conclusion_text == IF LowAverage(avg_confidence)
                           THEN <<v.text, Caveat>> ELSE <<v.text>>
    IN  [ overall            |-> v.overall,
          conclusion         |-> conclusion_text,
          recommendation     |-> v.recommendation,
          damage_breakdown   |-> t.damage_counts,
          average_confidence |-> RoundHalfEven(avg_confidence, 10 * Centi) \div 10 ]

-----------------------------------------------------------------------------
(* analyze_vehicle: the four angles in the caller's order, then the         *)
(* conclusion; the first angle that raises ends the call                    *)
required_angles == <<"frontal", "lateral-derecho", "lateral-izquierdo", "trasero">>
Angles == {required_angles[i] : i \in DOMAIN required_angles}

(* Variant: an angle that raises is skipped and the rest is returned *)
AnalyzeVehiclePartial(loaded, outputs, decodable) ==
    IF ~loaded THEN Raised("Modelo no cargado")
    ELSE
        LET per     == [a \in DOMAIN outputs |->
                           analyze_single_image(loaded, decodable[a], outputs[a])]
            results == [a \in {b \in DOMAIN outputs : per[b].status = "returned"} |->
                           per[a].value]
        IN  Returned(results @@
                ("conclusion" :> _generate_general_conclusion(results)))

analyze_vehicle(loaded, outputs, decodable) ==
    IF ~loaded THEN Raised("Modelo no cargado")
    ELSE
        LET per    == [a \in DOMAIN outputs |->
                          analyze_single_image(loaded, decodable[a], outputs[a])]
            failed == {i \in DOMAIN required_angles :
                          /\ required_angles[i] \in DOMAIN outputs
                          /\ per[required_angles[i]].status = "raised"}
        IN  IF failed # {}
            THEN per[required_angles[CHOOSE i \in failed : \A j \in failed : i <= j]]
            ELSE LET results == [a \in DOMAIN outputs |-> per[a].value]
                 IN  Returned(results @@
                        ("conclusion" :> _generate_general_conclusion(results)))

-----------------------------------------------------------------------------
(* app.py: startup, /api/health, /api/analyze *)
Requests == {"r1", "r2"}

NoResponse == [code |-> 0]
NoAnalyzer == [kind |-> "None"]

(* DamageAnalyzer(): _load_model finds the .keras file, else the .h5 file,   *)
(* loads it, and raises when neither exists or load_model fails             *)
_load_model(keras_exists, h5_exists, load_ok) ==
    IF ~keras_exists /\ ~h5_exists THEN Raised("Modelo no encontrado")
    ELSE IF ~load_ok THEN Raised("load_model")
    ELSE Returned([kind |-> "DamageAnalyzer", model_loaded |-> TRUE])

(* Variant: the constructor swallows the failure and an unloaded analyzer   *)
(* object is kept                                                           *)
InitAnalyzerSwallows(keras_exists, h5_exists, load_ok) ==
    LET made == _load_model(keras_exists, h5_exists, load_ok)
    IN  [analyzer   |-> IF made.status = "returned" THEN made.value
                        ELSE [kind |-> "DamageAnalyzer", model_loaded |-> FALSE],
         load_calls |-> 1]

(* lines 37-42: analyzer = DamageAnalyzer(), or None when that raises *)
InitAnalyzer(keras_exists, h5_exists, load_ok) ==
    LET made == _load_model(keras_exists, h5_exists, load_ok)
    IN  [analyzer   |-> IF made.status = "returned" THEN made.value ELSE NoAnalyzer,
         load_calls |-> 1]

(* line 87: "healthy" if analyzer and analyzer.model_loaded else "unavailable" *)
IaStatus(a) ==
    IF a.kind # "None" /\ a.model_loaded THEN "healthy" ELSE "unavailable"

(* line 99: analyzer is None *)
Unavailable(a) == a.kind = "None"

(* What a form can hold for an angle: nothing, a part with an empty         *)
(* filename, a part that is not an image, an image, or bytes sent as an     *)
(* image that do not decode                                                 *)
Images == {"intact", "dented"}
UploadKinds == {"missing", "empty", "notimage", "corrupt"} \cup Images

(* model.predict on a decoded upload *)
Predict(data) ==
    IF data = "dented"
    THEN [i \in ClassIdx |-> CASE i = 1 -> 70 * Milli [] i = 0 -> 30 * Milli [] OTHER -> 0]
    ELSE [i \in ClassIdx |-> CASE i = 3 -> 90 * Milli [] i = 0 -> 10 * Milli [] OTHER -> 0]

(* Variant: the content type is not checked *)
FirstRejectedNoType(form) ==
    LET bad == {i \in DOMAIN required_angles :
                    form[required_angles[i]] \in {"missing", "empty"}}
    IN  IF bad = {} THEN 0 ELSE CHOOSE i \in bad : \A j \in bad : i <= j

(* lines 110-131: the first angle, in required order, whose upload is       *)
(* rejected, and the response that rejects it; 0 when all four pass         *)
FirstRejected(form) ==
    LET bad == {i \in DOMAIN required_angles :
                    form[required_angles[i]] \in {"missing", "empty", "notimage"}}
    IN  IF bad = {} THEN 0 ELSE CHOOSE i \in bad : \A j \in bad : i <= j

Rejection(angle, kind) ==
    [ code   |-> 400,
      status |-> "error",
      error  |-> CASE kind = "missing"  -> <<"Falta imagen: ", angle>>
                   [] kind = "empty"    -> <<"Archivo vacío: ", angle>>
                   [] kind = "notimage" -> <<"Archivo no es imagen: ", angle>> ]

(* The upload folder: at most one file to a name; writing replaces *)
Exists(fs, name) == \E f \in fs : f.name = name
FileAt(fs, name) == CHOOSE f \in fs : f.name = name
Write(fs, name, owner, data, complete) ==
    {f \in fs : f.name # name}
        \cup {[name |-> name, owner |-> owner, data |-> data, complete |-> complete]}
Remove(fs, name) == {f \in fs : f.name # name}

(* line 138-139: "{angle}_{now}.jpg" under UPLOAD_FOLDER *)
Filename(angle, stamp) == <<angle, stamp>>

NoStore == [keras |-> FALSE, h5 |-> FALSE, loadable |-> FALSE]

RequestsIdle ==
    /\ pc = [r \in Requests |-> "idle"]
    /\ request_files = [r \in Requests |-> <<>>]
    /\ image_files = [r \in Requests |-> <<>>]
    /\ saved_paths = [r \in Requests |-> <<>>]
    /\ pos = [r \in Requests |-> 0]
    /\ analysis = [r \in Requests |-> Pending]
    /\ caught = [r \in Requests |-> ""]
    /\ response = [r \in Requests |-> NoResponse]

ServerDown ==
    /\ serving = FALSE
    /\ analyzer = NoAnalyzer
    /\ load_calls = 0
    /\ core_calls = 0
    /\ health = NoResponse
    /\ now = 0
    /\ files = {}

ServiceIdle ==
    /\ clients = {}
    /\ model_store = NoStore
    /\ ServerDown
    /\ RequestsIdle

-----------------------------------------------------------------------------
(* backend/auth.py: accounts, email verification and sessions               *)
MaxAuthTicks == 1

SessionIds == {"s1", "s2"}
Tokens == {"t1", "t2"}
NULL == "NULL"

LinkHours == 24
SessionDays == 7
PurgeDays == 30
MinPassword == 6

Days(n) == n * 24

(* Request inputs: strings are sequences of characters *)
RawEmails ==
    { <<" ", "A", "@", "x">>, <<"b", "@", "x">>, <<"b", "x">> }
Passwords == { <<"a", "b", "c">>, <<"s", "e", "c", "r", "e", "t">> }

Lower(c) == IF c = "A" THEN "a" ELSE c

RECURSIVE Strip(_)
Strip(str) ==
    IF str = <<>> THEN str
    ELSE IF Head(str) = " " THEN Strip(Tail(str))
    ELSE IF str[Len(str)] = " " THEN Strip(SubSeq(str, 1, Len(str) - 1))
    ELSE str

NormalizeEmail(raw) == Strip([i \in 1..Len(raw) |-> Lower(raw[i])])

Contains(str, c) == \E i \in 1..Len(str) : str[i] = c

hash_password(password) == <<"sha256", password>>

UserIdOf(tbl, email) ==
    IF \E i \in 1..Len(tbl) : tbl[i].email = email
    THEN CHOOSE i \in 1..Len(tbl) : tbl[i].email = email
    ELSE 0

(* register: the response code and the table afterwards *)
register(tbl, complete, raw_email, password, token, at) ==
    LET email == NormalizeEmail(raw_email) IN
    IF ~complete THEN [code |-> 400, error |-> "Datos incompletos", users |-> tbl]
    ELSE IF Len(password) < MinPassword
    THEN [code |-> 400, error |-> "La contraseña debe tener al menos 6 caracteres",
          users |-> tbl]
    ELSE IF ~Contains(email, "@")
    THEN [code |-> 400, error |-> "Email inválido", users |-> tbl]
    ELSE IF UserIdOf(tbl, email) # 0
    THEN [code |-> 400, error |-> "El email ya está registrado", users |-> tbl]
    ELSE [code |-> 200, error |-> "",
          users |-> Append(tbl, [email |-> email,
                                 password_hash |-> hash_password(password),
                                 created_at |-> at,
                                 email_verified |-> FALSE,
                                 verification_token |-> token])]

(* The row verify_email selects: the first unverified one holding the token *)
TokenHolders(tbl, token) ==
    {i \in 1..Len(tbl) : tbl[i].verification_token = token /\ ~tbl[i].email_verified}

FirstOf(ids) == IF ids = {} THEN 0 ELSE CHOOSE i \in ids : \A j \in ids : i <= j

verify_email(tbl, has_token, token, at) ==
    LET user == IF has_token THEN FirstOf(TokenHolders(tbl, token)) ELSE 0 IN
    IF user = 0 THEN [code |-> 400, user |-> 0, users |-> tbl]
    ELSE [code |-> 200, user |-> user,
          users |-> [tbl EXCEPT ![user].email_verified = TRUE,
                                ![user].verification_token = NULL]]

(* login: what the checks of a found user's row say *)
CredentialsOnly(row, password) ==
    IF hash_password(password) # row.password_hash
    THEN "Credenciales incorrectas"
    ELSE "ok"

Credentials(row, password) ==
    IF hash_password(password) # row.password_hash
    THEN "Credenciales incorrectas"
    ELSE IF ~row.email_verified
    THEN "Por favor verifica tu email antes de iniciar sesión"
    ELSE "ok"

Purged(sessions, at) == {s \in sessions : ~(s.created_at < at - Days(PurgeDays))}

login(tbl, sessions, complete, raw_email, password, session_id, at) ==
    LET user == UserIdOf(tbl, NormalizeEmail(raw_email)) IN
    IF ~complete
    THEN [code |-> 400, error |-> "Datos incompletos", sessions |-> sessions]
    ELSE IF user = 0
    THEN [code |-> 401, error |-> "Credenciales incorrectas", sessions |-> sessions]
    ELSE IF Credentials(tbl[user], password) # "ok"
    THEN [code |-> 401, error |-> Credentials(tbl[user], password),
          sessions |-> sessions]
    ELSE IF \E s \in sessions : s.session_id = session_id
    THEN [code |-> 500, error |-> "Error en el login: ", sessions |-> sessions]
    ELSE [code |-> 200, error |-> "", user |-> user, session_id |-> session_id,
          sessions |-> Purged(sessions \cup {[session_id |-> session_id,
                                              user_id |-> user,
                                              created_at |-> at]}, at)]

verify_session(sessions, has_id, session_id, at) ==
    LET rows == {s \in sessions : /\ s.session_id = session_id
                                  /\ s.created_at > at - Days(SessionDays)}
    IN  IF ~has_id THEN [code |-> 401, error |-> "Sesión requerida"]
        ELSE IF rows = {} THEN [code |-> 401, error |-> "Sesión inválida o expirada"]
        ELSE [code |-> 200, valid |-> TRUE, user |-> (CHOOSE s \in rows : TRUE).user_id]

logout(sessions, has_id, session_id) ==
    IF has_id THEN {s \in sessions : s.session_id # session_id} ELSE sessions

NoReply == [op |-> "none"]
NeverIssued == [state |-> "never", verified |-> FALSE]

AuthIdle ==
    /\ users = <<>>
    /\ user_sessions = {}
    /\ auth_now = 0
    /\ auth_ticks = 0
    /\ issued = [s \in SessionIds |-> NeverIssued]
    /\ reply = NoReply

-----------------------------------------------------------------------------
(* Model outputs: three free entries from a grid around the thresholds and  *)
(* the exact ties, the fourth completing the sum to 1.0                     *)
Around(c) == {c * Milli + j : j \in (0 - Jitter)..Jitter}

Grid ==
    {0, 25 * Milli, 50 * Milli, 100 * Milli}
        \cup Around(20) \cup Around(40) \cup Around(60) \cup Around(80)

Vectors ==
    { [i \in ClassIdx |->
            CASE i = 0 -> t[1] [] i = 1 -> t[2] [] i = 2 -> t[3]
              [] i = 3 -> Scale - t[1] - t[2] - t[3]] :
        t \in {u \in Grid \X Grid \X Grid : u[1] + u[2] + u[3] <= Scale} }

-----------------------------------------------------------------------------
(* Interpreter specification: analyze_single_image applied to every model   *)
(* output of the grid                                                       *)
VehicleIdle ==
    /\ images = <<>>
    /\ v_loaded = FALSE
    /\ outcome = Pending

InitInterp ==
    /\ prediction_array \in Vectors
    /\ model_loaded \in BOOLEAN
    /\ image_ok \in BOOLEAN
    /\ single = Pending
    /\ VehicleIdle
    /\ ServiceIdle
    /\ AuthIdle

AnalyzeSingleImage ==
    /\ single.status = "pending"
    /\ single' = analyze_single_image(model_loaded, image_ok, prediction_array)
    /\ UNCHANGED <<prediction_array, model_loaded, image_ok, vehicleVars, serviceVars, authVars>>

NextInterp == AnalyzeSingleImage

SpecInterpret == InitInterp /\ [][NextInterp]_vars

-----------------------------------------------------------------------------
(* Vehicle specification: analyze_vehicle applied to four images, each a    *)
(* clear winner of one class at a confidence on or beside a tier threshold  *)
Winners == {60 * Milli - Centi, 60 * Milli, 60 * Milli + Jitter, 80 * Milli}

VehicleVectors ==
    { [i \in ClassIdx |->
            IF i = c THEN w ELSE IF i = (c + 1) % 4 THEN Scale - w ELSE 0] :
        c \in ClassIdx, w \in Winners }

InterpIdle ==
    /\ prediction_array = <<>>
    /\ model_loaded = FALSE
    /\ image_ok = FALSE
    /\ single = Pending

InitVehicle ==
    /\ images \in [Angles -> VehicleVectors]
    /\ v_loaded \in BOOLEAN
    /\ outcome = Pending
    /\ InterpIdle
    /\ ServiceIdle
    /\ AuthIdle

AnalyzeVehicle ==
    /\ outcome.status = "pending"
    /\ \E undecodable \in Angles \cup {"none"} :
          outcome' = analyze_vehicle(v_loaded, images,
                                     [a \in Angles |-> a # undecodable])
    /\ UNCHANGED <<images, v_loaded, interpVars, serviceVars, authVars>>

NextVehicle == AnalyzeVehicle

SpecVehicle == InitVehicle /\ [][NextVehicle]_vars

-----------------------------------------------------------------------------
(* Service specification: the process starts, then serves /api/health and   *)
(* one /api/analyze request, step by step                                   *)
Init ==
    /\ clients = {"r1"}
    /\ model_store \in [keras : BOOLEAN, h5 : BOOLEAN, loadable : BOOLEAN]
    /\ ServerDown
    /\ RequestsIdle
    /\ InterpIdle
    /\ VehicleIdle
    /\ AuthIdle

(* app.py lines 36-47, run once at import *)
Startup ==
    /\ ~serving
    /\ LET made == InitAnalyzer(model_store.keras, model_store.h5, model_store.loadable)
       IN  /\ analyzer' = made.analyzer
           /\ load_calls' = load_calls + made.load_calls
    /\ serving' = TRUE
    /\ UNCHANGED <<clients, model_store, core_calls, health, now, files, requestVars, interpVars, vehicleVars, authVars>>

(* health_check *)
HealthCheck ==
    /\ serving
    /\ health' = [code |-> 200, status |-> "healthy", ia_status |-> IaStatus(analyzer)]
    /\ UNCHANGED <<clients, model_store, serving, analyzer, load_calls, core_calls, now, files,
                   requestVars, interpVars, vehicleVars, authVars>>

(* Time passes *)
Tick ==
    /\ serving
    /\ now < MaxClock
    /\ now' = now + 1
    /\ UNCHANGED <<clients, model_store, serving, analyzer, load_calls, core_calls, health, files,
                   requestVars, interpVars, vehicleVars, authVars>>

(* analyze_vehicle, lines 99-103: the request arrives *)
Receive(r) ==
    /\ serving
    /\ r \in clients
    /\ pc[r] = "idle"
    /\ IF Unavailable(analyzer)
       THEN /\ response' = [response EXCEPT ![r] =
                    [code |-> 503, status |-> "error",
                     error |-> <<"Servicio de IA no disponible">>]]
            /\ pc' = [pc EXCEPT ![r] = "done"]
       ELSE /\ pc' = [pc EXCEPT ![r] = "validate"]
            /\ UNCHANGED response
    /\ UNCHANGED <<serverVars, request_files, image_files, saved_paths, pos, analysis, caught,
                   interpVars, vehicleVars, authVars>>

(* lines 105-133: the four uploads of the form are checked in order *)
ValidateFrom(r, forms) ==
    /\ pc[r] = "validate"
    /\ \E form \in forms :
          LET i == FirstRejected(form)
          IN  /\ request_files' = [request_files EXCEPT ![r] = form]
              /\ IF i # 0
                 THEN /\ response' = [response EXCEPT ![r] =
                             Rejection(required_angles[i], form[required_angles[i]])]
                      /\ pc' = [pc EXCEPT ![r] = "done"]
                      /\ UNCHANGED image_files
                 ELSE /\ image_files' = [image_files EXCEPT ![r] = form]
                      /\ pc' = [pc EXCEPT ![r] = "save"]
                      /\ UNCHANGED response
    /\ UNCHANGED <<serverVars, saved_paths, pos, analysis, caught,
                   interpVars, vehicleVars, authVars>>

Validate(r) == ValidateFrom(r, [Angles -> UploadKinds])

(* lines 137-141, one iteration: file.save writes the upload, or raises     *)
(* having created nothing, or raises having written part of the file       *)
SaveUpload(r) ==
    /\ pc[r] = "save"
    /\ LET angle == required_angles[Len(saved_paths[r]) + 1]
           name  == Filename(angle, now)
       IN  \/ /\ files' = Write(files, name, r, image_files[r][angle], TRUE)
              /\ saved_paths' = [saved_paths EXCEPT ![r] = Append(@, name)]
              /\ pc' = [pc EXCEPT ![r] =
                          IF Len(saved_paths[r]) + 1 = Len(required_angles)
                          THEN "analyze" ELSE "save"]
              /\ UNCHANGED caught
           \/ /\ caught' = [caught EXCEPT ![r] = "OSError"]
              /\ pc' = [pc EXCEPT ![r] = "except"]
              /\ UNCHANGED <<files, saved_paths>>
           \/ /\ files' = Write(files, name, r, image_files[r][angle], FALSE)
              /\ caught' = [caught EXCEPT ![r] = "OSError"]
              /\ pc' = [pc EXCEPT ![r] = "except"]
              /\ UNCHANGED saved_paths
    /\ UNCHANGED <<clients, model_store, serving, analyzer, load_calls, core_calls, health, now,
                   request_files, image_files, pos, analysis, response, interpVars, vehicleVars, authVars>>

(* line 145: analyzer.analyze_vehicle(saved_paths) reads the four files *)
Analyze(r) ==
    /\ pc[r] = "analyze"
    /\ LET path(a)   == saved_paths[r][CHOOSE i \in DOMAIN required_angles :
                                            required_angles[i] = a]
           decodable == [a \in Angles |->
                            /\ Exists(files, path(a))
                            /\ FileAt(files, path(a)).complete
                            /\ FileAt(files, path(a)).data \in Images]
           outputs   == [a \in Angles |->
                            IF Exists(files, path(a))
                            THEN Predict(FileAt(files, path(a)).data)
                            ELSE Predict("intact")]
           out       == IF analyzer.kind = "None" THEN Raised("AttributeError")
                        ELSE analyze_vehicle(analyzer.model_loaded, outputs, decodable)
       IN  /\ core_calls' = IF analyzer.kind = "None" THEN core_calls ELSE core_calls + 1
           /\ IF out.status = "returned"
              THEN /\ analysis' = [analysis EXCEPT ![r] = out]
                   /\ pc' = [pc EXCEPT ![r] = "cleanup"]
                   /\ UNCHANGED caught
              ELSE /\ caught' = [caught EXCEPT ![r] = out.error]
                   /\ pc' = [pc EXCEPT ![r] = "except"]
                   /\ UNCHANGED analysis
    /\ UNCHANGED <<clients, model_store, serving, analyzer, load_calls, health, now, files,
                   request_files, image_files, saved_paths, pos, response, interpVars, vehicleVars, authVars>>

(* lines 148-152, one iteration: os.remove deletes the file, or raises and  *)
(* is logged                                                                *)
RemoveTemp(r) ==
    /\ pc[r] = "cleanup"
    /\ pos[r] < Len(saved_paths[r])
    /\ \/ /\ Exists(files, saved_paths[r][pos[r] + 1])
          /\ files' = Remove(files, saved_paths[r][pos[r] + 1])
       \/ UNCHANGED files
    /\ pos' = [pos EXCEPT ![r] = @ + 1]
    /\ UNCHANGED <<clients, model_store, serving, analyzer, load_calls, core_calls, health, now,
                   pc, request_files, image_files, saved_paths, analysis, caught, response,
                   interpVars, vehicleVars, authVars>>

(* lines 154-160 *)
RespondSuccess(r) ==
    /\ pc[r] = "cleanup"
    /\ pos[r] = Len(saved_paths[r])
    /\ response' = [response EXCEPT ![r] =
            [code |-> 200, status |-> "success", results |-> analysis[r].value]]
    /\ pc' = [pc EXCEPT ![r] = "done"]
    /\ UNCHANGED <<serverVars, request_files, image_files, saved_paths, pos, analysis, caught,
                   interpVars, vehicleVars, authVars>>

(* lines 166-172, one iteration: an existing file is removed, or the        *)
(* removal raises and is passed over; a missing file is skipped             *)
CleanupAfterError(r) ==
    /\ pc[r] = "except"
    /\ pos[r] < Len(saved_paths[r])
    /\ \/ /\ Exists(files, saved_paths[r][pos[r] + 1])
          /\ files' = Remove(files, saved_paths[r][pos[r] + 1])
       \/ UNCHANGED files
    /\ pos' = [pos EXCEPT ![r] = @ + 1]
    /\ UNCHANGED <<clients, model_store, serving, analyzer, load_calls, core_calls, health, now,
                   pc, request_files, image_files, saved_paths, analysis, caught, response,
                   interpVars, vehicleVars, authVars>>

(* lines 174-177 *)
RespondError(r) ==
    /\ pc[r] = "except"
    /\ pos[r] = Len(saved_paths[r])
    /\ response' = [response EXCEPT ![r] =
            [code |-> 500, status |-> "error",
             error |-> <<"Error procesando las imágenes: ", caught[r]>>]]
    /\ pc' = [pc EXCEPT ![r] = "done"]
    /\ UNCHANGED <<serverVars, request_files, image_files, saved_paths, pos, analysis, caught,
                   interpVars, vehicleVars, authVars>>

Next ==
    \/ Startup
    \/ HealthCheck
    \/ Tick
    \/ \E r \in Requests :
          \/ Receive(r)
          \/ Validate(r)
          \/ SaveUpload(r)
          \/ Analyze(r)
          \/ RemoveTemp(r)
          \/ RespondSuccess(r)
          \/ CleanupAfterError(r)
          \/ RespondError(r)

Spec == Init /\ [][Next]_vars

-----------------------------------------------------------------------------
(* Concurrent specification: two /api/analyze requests served at the same   *)
(* time by a loaded service, each sending four good images of its own       *)
OwnForm(r) == [a \in Angles |-> IF r = "r1" THEN "intact" ELSE "dented"]

InitConcurrent ==
    /\ clients = Requests
    /\ model_store = [keras |-> TRUE, h5 |-> FALSE, loadable |-> TRUE]
    /\ ServerDown
    /\ RequestsIdle
    /\ InterpIdle
    /\ VehicleIdle
    /\ AuthIdle

NextConcurrent ==
    \/ Startup
    \/ Tick
    \/ \E r \in Requests :
          \/ Receive(r)
          \/ ValidateFrom(r, {OwnForm(r)})
          \/ SaveUpload(r)
          \/ Analyze(r)
          \/ RemoveTemp(r)
          \/ RespondSuccess(r)
          \/ CleanupAfterError(r)
          \/ RespondError(r)

SpecConcurrent == InitConcurrent /\ [][NextConcurrent]_vars

-----------------------------------------------------------------------------
(* Accounts specification: any sequence of calls of the five auth routes    *)
(* on a fresh database, with the clock advancing in between                 *)
Steps == {LinkHours + 1, Days(SessionDays), Days(PurgeDays) + 1}

InitAuth ==
    /\ users = <<>>
    /\ user_sessions = {}
    /\ auth_now = 0
    /\ auth_ticks = 0
    /\ issued = [s \in SessionIds |-> NeverIssued]
    /\ reply = NoReply
    /\ InterpIdle
    /\ VehicleIdle
    /\ ServiceIdle

AuthTick ==
    /\ auth_ticks < MaxAuthTicks
    /\ \E step \in Steps : auth_now' = auth_now + step
    /\ auth_ticks' = auth_ticks + 1
    /\ UNCHANGED <<users, user_sessions, issued, reply, interpVars, vehicleVars, serviceVars>>

Register ==
    /\ \E complete \in BOOLEAN, raw_email \in RawEmails, password \in Passwords,
          token \in Tokens :
          LET r == register(users, complete, raw_email, password, token, auth_now) IN
          /\ users' = r.users
          /\ reply' = [op |-> "register", code |-> r.code]
    /\ UNCHANGED <<user_sessions, auth_now, auth_ticks, issued,
                   interpVars, vehicleVars, serviceVars>>

VerifyEmail ==
    /\ \E has_token \in BOOLEAN, token \in Tokens :
          LET r == verify_email(users, has_token, token, auth_now) IN
          /\ users' = r.users
          /\ reply' = [op |-> "verify_email", code |-> r.code, user |-> r.user,
                       at |-> auth_now]
    /\ UNCHANGED <<user_sessions, auth_now, auth_ticks, issued,
                   interpVars, vehicleVars, serviceVars>>

Login ==
    /\ \E complete \in BOOLEAN, raw_email \in RawEmails, password \in Passwords,
          session_id \in SessionIds :
          LET r == login(users, user_sessions, complete, raw_email, password,
                         session_id, auth_now)
          IN  /\ user_sessions' = r.sessions
              /\ reply' = [op |-> "login", code |-> r.code]
              /\ issued' = IF r.code = 200
                           THEN [issued EXCEPT ![session_id] =
                                    [state |-> "live",
                                     verified |-> users[r.user].email_verified]]
                           ELSE issued
    /\ UNCHANGED <<users, auth_now, auth_ticks, interpVars, vehicleVars, serviceVars>>

VerifySession ==
    /\ \E has_id \in BOOLEAN, session_id \in SessionIds :
          LET r == verify_session(user_sessions, has_id, session_id, auth_now) IN
          reply' = [op |-> "verify_session", code |-> r.code,
                    session_id |-> IF has_id THEN session_id ELSE NULL]
    /\ UNCHANGED <<users, user_sessions, auth_now, auth_ticks, issued,
                   interpVars, vehicleVars, serviceVars>>

Logout ==
    /\ \E has_id \in BOOLEAN, session_id \in SessionIds :
          /\ user_sessions' = logout(user_sessions, has_id, session_id)
          /\ issued' = IF has_id /\ issued[session_id].state = "live"
                       THEN [issued EXCEPT ![session_id].state = "revoked"]
                       ELSE issued
          /\ reply' = [op |-> "logout", code |-> 200]
    /\ UNCHANGED <<users, auth_now, auth_ticks, interpVars, vehicleVars, serviceVars>>

NextAuth ==
    \/ AuthTick
    \/ Register
    \/ VerifyEmail
    \/ Login
    \/ VerifySession
    \/ Logout

SpecAuth == InitAuth /\ [][NextAuth]_vars

-----------------------------------------------------------------------------
(* Properties of analyze_single_image *)

(* The largest entry of a vector, and the class names holding it *)
MaxProb(arr) == CHOOSE m \in {arr[i] : i \in ClassIdx} : \A j \in ClassIdx : arr[j] <= m
Holders(arr) == {i \in ClassIdx : arr[i] = MaxProb(arr)}
NameOfDamage(d) == CHOOSE n \in DOMAIN CLASS_LABELS : StripPrefix(n) = d

(* C2: the tier follows confidence = winning probability x 100: high when   *)
(* confidence > 80, medium when 60 < confidence <= 80, low when <= 60       *)
C2_TierBoundaries ==
    single.status = "returned" =>
        LET c   == Pct(MaxProb(prediction_array))
            lvl == single.value.confidence_level
        IN  /\ (lvl = "alta")  <=> (c > 80 * Milli)
            /\ (lvl = "media") <=> (c > 60 * Milli /\ c <= 80 * Milli)
            /\ (lvl = "baja")  <=> (c <= 60 * Milli)

C2_Witness ==
    /\ single.status = "returned"
    /\ Pct(MaxProb(prediction_array)) = 80 * Milli
    /\ single.value.confidence_level = "media"

(* C3: the qualifier appended to details is the one of the result's own     *)
(* confidence tier                                                          *)
QualOfLevel(lvl) ==
    CASE lvl = "baja" -> QualLow [] lvl = "media" -> QualMed [] lvl = "alta" -> QualHigh

C3_QualifierMatchesTier ==
    single.status = "returned" =>
        single.value.details[Len(single.value.details)]
            = QualOfLevel(single.value.confidence_level)

(* C4: the reported class holds the maximum probability, and is the         *)
(* lowest-indexed class among those that hold it                            *)
C4_ArgmaxLowestIndex ==
    single.status = "returned" =>
        LET n == NameOfDamage(single.value.damage)
            i == CHOOSE k \in ClassIdx : CLASS_NAMES[k] = n
        IN  /\ i \in Holders(prediction_array)
            /\ \A j \in Holders(prediction_array) : i <= j
            /\ single.value.damage_label = CLASS_LABELS[n]

C4_Witness ==
    /\ single.status = "returned"
    /\ Cardinality(Holders(prediction_array)) >= 2
    /\ single.value.damage = "moderate"

(* C7: confidence is the breakdown entry of the winning class rounded to    *)
(* two decimals                                                             *)
C7_ConfidenceRoundTrip ==
    single.status = "returned" =>
        LET raw == single.value.all_predictions[NameOfDamage(single.value.damage)]
            q   == raw \div Centi
        IN  /\ single.value.confidence \in {q * Centi, (q + 1) * Centi}
            /\ 2 * (single.value.confidence - raw) <= Centi
            /\ 2 * (raw - single.value.confidence) <= Centi

C7_Witness ==
    /\ single.status = "returned"
    /\ single.value.all_predictions[NameOfDamage(single.value.damage)]
            # single.value.confidence

-----------------------------------------------------------------------------
(* Properties of analyze_vehicle and _generate_general_conclusion *)
Results == outcome.value
NumOf(d) == Cardinality({a \in Angles : Results[a].damage = d})
SumOfConfidences ==
    Results["frontal"].confidence + Results["lateral-derecho"].confidence
        + Results["lateral-izquierdo"].confidence + Results["trasero"].confidence
HasCaveat ==
    Results["conclusion"].conclusion[Len(Results["conclusion"].conclusion)] = Caveat

(* C1: overall is poor if any angle is Severe, else acceptable if more than *)
(* one is Moderate, else good if any is Minor, else excellent               *)
C1_VerdictPriority ==
    outcome.status = "returned" =>
        Results["conclusion"].overall =
            IF NumOf("severe") > 0 THEN "poor"
            ELSE IF NumOf("moderate") > 1 THEN "acceptable"
            ELSE IF NumOf("minor") > 0 THEN "good"
            ELSE "excellent"

C1_Witness ==
    /\ outcome.status = "returned"
    /\ NumOf("moderate") = 1
    /\ NumOf("no-damage") = 3
    /\ Results["conclusion"].overall = "excellent"

(* C5: the conclusion text ends with the caveat exactly when the mean of    *)
(* the four confidences is below 70, whatever the verdict                   *)
C5_CaveatIffLowMean ==
    outcome.status = "returned" =>
        (HasCaveat <=> SumOfConfidences < 4 * 70 * Milli)

C5_Witness ==
    /\ outcome.status = "returned"
    /\ SumOfConfidences = 4 * 70 * Milli
    /\ ~HasCaveat
    /\ Results["conclusion"].overall = "acceptable"

(* C6: the four counts of damage_breakdown are non-negative and sum to 4 *)
C6_BreakdownSumsToFour ==
    outcome.status = "returned" =>
        LET b == Results["conclusion"].damage_breakdown
        IN  /\ DOMAIN b = Labels
            /\ \A l \in Labels : b[l] >= 0
            /\ b["Sin Daño"] + b["Daño Leve"] + b["Daño Moderado"] + b["Daño Severo"] = 4

C6_Witness ==
    /\ outcome.status = "returned"
    /\ Results["conclusion"].damage_breakdown["Daño Leve"] = 3
    /\ Results["conclusion"].damage_breakdown["Sin Daño"] = 1

(* C8: two results that report the same confidence report the same          *)
(* confidence_level                                                         *)
C8_TierFunctionOfConfidence ==
    outcome.status = "returned" =>
        \A a, b \in Angles :
            Results[a].confidence = Results[b].confidence
                => Results[a].confidence_level = Results[b].confidence_level

-----------------------------------------------------------------------------
(* Properties of the service *)

(* C9: once a request's response is returned, no file that request wrote    *)
(* remains in the upload folder                                             *)
C9_NoTempFileAfterResponse ==
    \A r \in Requests :
        pc[r] = "done" => \A f \in files : f.owner # r

(* C10: when the model failed to load at startup, health reports            *)
(* unavailable and every analyze request ends at once with the              *)
(* unavailability error: nothing saved, the core never called, no reload    *)
LoadFails ==
    _load_model(model_store.keras, model_store.h5, model_store.loadable).status = "raised"

C10_DegradedFailsFast ==
    (serving /\ LoadFails) =>
        /\ health # NoResponse => health.ia_status = "unavailable"
        /\ \A r \in Requests :
              /\ pc[r] \in {"idle", "done"}
              /\ pc[r] = "done" =>
                    /\ response[r].code = 503
                    /\ response[r].error = <<"Servicio de IA no disponible">>
        /\ files = {}
        /\ core_calls = 0
        /\ load_calls = 1

C10_Witness ==
    /\ serving
    /\ LoadFails
    /\ health # NoResponse
    /\ health.ia_status = "unavailable"
    /\ \E r \in Requests : pc[r] = "done" /\ response[r].code = 503

(* C11: no partial verdict: when an angle fails, analyze_vehicle returns    *)
(* nothing and the response is an error without results; a success          *)
(* response holds the four per-angle results and the conclusion             *)
SomeCorrupt(r) ==
    /\ DOMAIN request_files[r] = Angles
    /\ \E a \in Angles : request_files[r][a] = "corrupt"

C11_NoPartialVerdict ==
    \A r \in Requests :
        pc[r] = "done" =>
            /\ response[r].code = 200 =>
                  /\ DOMAIN response[r].results = Angles \cup {"conclusion"}
                  /\ \A a \in Angles : request_files[r][a] \in Images
            /\ response[r].code # 200 => "results" \notin DOMAIN response[r]
            /\ SomeCorrupt(r) =>
                  /\ response[r].code \in {400, 500}
                  /\ analysis[r].status = "pending"

C11_Witness ==
    \E r \in Requests :
        /\ pc[r] = "done"
        /\ SomeCorrupt(r)
        /\ \E a \in Angles : request_files[r][a] \in Images
        /\ caught[r] = "PreprocessingError"
        /\ response[r].code = 500

(* C12: a form with a missing, empty-named or non-image upload is answered  *)
(* 400 naming the offending angle, with no upload written and the core      *)
(* never called                                                             *)
Offending(r) ==
    {a \in Angles : request_files[r][a] \in {"missing", "empty", "notimage"}}

Validated(r) == DOMAIN request_files[r] = Angles

OwnResult(r) ==
    analyze_vehicle(TRUE, [a \in Angles |-> Predict(request_files[r][a])],
                    [a \in Angles |-> TRUE]).value

C13_RequestsIsolated ==
    \A r \in Requests :
        /\ pc[r] # "done" =>
              \A i \in (pos[r] + 1)..Len(saved_paths[r]) :
                  /\ Exists(files, saved_paths[r][i])
                  /\ FileAt(files, saved_paths[r][i]).owner = r
        /\ (pc[r] = "done" /\ response[r].code = 200) =>
              response[r].results = OwnResult(r)

-----------------------------------------------------------------------------
(* Severity and verdict orders *)
SeverityOf(label) ==
    CASE label = "Sin Daño" -> 0
      [] label = "Daño Leve" -> 1
      [] label = "Daño Moderado" -> 2
      [] label = "Daño Severo" -> 3

Goodness(overall) ==
    CASE overall = "poor" -> 0
      [] overall = "acceptable" -> 1
      [] overall = "good" -> 2
      [] overall = "excellent" -> 3

Breakdown == Results["conclusion"].damage_breakdown

(* The replacements of one angle's class by a more severe one *)
Escalations ==
    {e \in Labels \X Labels : Breakdown[e[1]] > 0 /\ SeverityOf(e[1]) < SeverityOf(e[2])}

Escalated(e) == [Breakdown EXCEPT ![e[1]] = @ - 1, ![e[2]] = @ + 1]

(* Replacing the only Minor by Moderate when nothing is Moderate or Severe *)
LoneMinorToModerate(e) ==
    /\ e = <<"Daño Leve", "Daño Moderado">>
    /\ Breakdown["Daño Leve"] = 1
    /\ Breakdown["Daño Moderado"] = 0
    /\ Breakdown["Daño Severo"] = 0

(* C16 as stated: no replacement by a more severe class gives a better      *)
(* overall verdict                                                          *)
C16_VerdictMonotone ==
    outcome.status = "returned" =>
        \A e \in Escalations :
            Goodness(Verdict(Escalated(e)).overall)
                <= Goodness(Results["conclusion"].overall)

(* C16 amended: a replacement by a more severe class gives a better overall *)
(* verdict in one case only, the lone Minor replaced by Moderate with no    *)
(* Moderate or Severe angle, where good becomes excellent                   *)
C16_VerdictMonotoneButLoneMinor ==
    outcome.status = "returned" =>
        \A e \in Escalations :
            IF LoneMinorToModerate(e)
            THEN /\ Results["conclusion"].overall = "good"
                 /\ Verdict(Escalated(e)).overall = "excellent"
            ELSE Goodness(Verdict(Escalated(e)).overall)
                    <= Goodness(Results["conclusion"].overall)

C16_Witness ==
    /\ outcome.status = "returned"
    /\ Breakdown["Daño Leve"] = 1
    /\ Breakdown["Daño Moderado"] = 1
    /\ Results["conclusion"].overall = "good"
    /\ Verdict(Escalated(<<"Daño Leve", "Daño Moderado">>)).overall = "acceptable"

(* C17: the caveat is in the conclusion text exactly when the reported      *)
(* average_confidence is below 70                                           *)
C17_CaveatIffReportedLow ==
    outcome.status = "returned" =>
        (HasCaveat <=> Results["conclusion"].average_confidence < 70 * Milli)

-----------------------------------------------------------------------------
(* Properties of the auth routes *)

(* C14: verify_session accepts a session id only if a login of a user whose *)
(* email was verified at that time issued it and logout has not been given  *)
(* it since; every session row comes from such a login, so a login of an    *)
(* unverified user creates none                                             *)
FromVerifiedLogin(session_id) ==
    /\ issued[session_id].state = "live"
    /\ issued[session_id].verified

C14_SessionsOnlyFromVerifiedLogin ==
    /\ (reply.op = "verify_session" /\ reply.code = 200) =>
          FromVerifiedLogin(reply.session_id)
    /\ \A s \in user_sessions : FromVerifiedLogin(s.session_id)
    /\ (reply.op = "login" /\ reply.code = 200) =>
          \E s \in user_sessions : users[s.user_id].email_verified

C14_Witness ==
    /\ reply.op = "verify_session"
    /\ reply.code = 200
    /\ \E s \in SessionIds : issued[s].state = "revoked"
    /\ \E i \in 1..Len(users) : ~users[i].email_verified

(* C15: a verify-email request made more than 24 hours after register wrote *)
(* the token is rejected and the account stays unverified                   *)
C15_LinkExpiresAfterADay ==
    \A i \in 1..Len(users) :
        (/\ reply.op = "verify_email"
         /\ reply.user = i
         /\ reply.at - users[i].created_at > LinkHours) =>
            /\ reply.code = 400
            /\ ~users[i].email_verified

=============================================================================
